---- MODULE Spec2Model ----
(***************************************************************************)
(* Model of the learning loop of src/src/Agent.py (class Agent) and        *)
(* src/src/DeepQAgent.py (class DeepQAgent): the bounded deque memory,     *)
(* the feature encoder, epsilon-greedy move selection, the Q-learning      *)
(* training pass, epsilon decay and the checkpoint at the episode end.     *)
(*                                                                         *)
(* Numbers.  Rewards, action values and targets are integers in units of   *)
(* 1/100 (2.96 is 296).  Epsilon and the uniform draw are exact rationals  *)
(* [n |-> numerator, d |-> denominator], d > 0.                            *)
(***************************************************************************)
EXTENDS Integers, Sequences, FiniteSets, TLC

(***************************************************************************)
(* Bounds of the model.                                                    *)
(***************************************************************************)
\* Agent.MAX_DATA_LENGTH is 50000 in Agent.py:21; the deque is modelled with
\* this scaled-down maxlen.
MAX_DATA_LENGTH == 2
\* DeepQAgent's actionSize is 38 by default (DeepQAgent.py:38); scaled down.
actionSize == 2
\* Most steps recorded in one fight before its review (training runs).
MaxFight == 2
\* Most reviews one agent runs (training runs).
MaxReviews == 1
\* Most training passes one agent runs (epsilon runs).
MaxPasses == 2

\* Most recordStep calls followed on one deque (memory runs): enough to evict.
MaxAppends == MAX_DATA_LENGTH + 2

(***************************************************************************)
(* Program constants.                                                      *)
(***************************************************************************)
stateSize == 32
LOCKOUT_TIMER == 39208
NUM_CHARACTERS == 8
\* DEFAULT_DISCOUNT_RATE = 0.98, in hundredths
GAMMA_PERCENT == 98

\* Indices into a recorded step (0-based, as in Agent.py)
OBSERVATION_INDEX == 0
STATE_INDEX == 1
ACTION_INDEX == 2
REWARD_INDEX == 3
NEXT_OBSERVATION_INDEX == 4
NEXT_STATE_INDEX == 5
DONE_INDEX == 6

EPSILON_MIN == [n |-> 1, d |-> 10]
DEFAULT_EPSILON_DECAY == [n |-> 999, d |-> 1000]
DEFAULT_EPSILON == [n |-> 1, d |-> 1]

stateIndices == (512 :> 0) @@ (514 :> 1) @@ (516 :> 2) @@ (518 :> 3) @@ (520 :> 4)
                @@ (522 :> 5) @@ (524 :> 6) @@ (526 :> 7) @@ (532 :> 8)
doneKeys == {0, 528, 530, 1024, 1026, 1028, 1030, 1032}

\* Agent.NO_MOVE is read by DeepQAgent.getMove but defined in no file of src/.
NO_MOVE == 0

Actions == 0 .. (actionSize - 1)

(***************************************************************************)
(* Exact rational arithmetic (numpy floats are modelled without rounding). *)
(* CmpQ compares a.n/a.d with b.n/b.d by integer parts and reciprocals of  *)
(* the remainders, so no product is formed: -1, 0 or 1.                    *)
(***************************************************************************)
RECURSIVE CmpFrac(_, _, _, _)
CmpFrac(a, b, c, d) ==
    LET qa == a \div b
        qc == c \div d
        ra == a % b
        rc == c % d
    IN  IF qa < qc THEN -1
        ELSE IF qa > qc THEN 1
        ELSE IF ra = 0 /\ rc = 0 THEN 0
        ELSE IF ra = 0 THEN -1
        ELSE IF rc = 0 THEN 1
        ELSE CmpFrac(d, rc, b, ra)

CmpQ(x, y) == CmpFrac(x.n, x.d, y.n, y.d)
LeQ(x, y) == CmpQ(x, y) <= 0
GtQ(x, y) == CmpQ(x, y) > 0
EqQ(x, y) == CmpQ(x, y) = 0
MulQ(x, y) == [n |-> x.n * y.n, d |-> x.d * y.d]
MaxQ(x, y) == IF GtQ(y, x) THEN y ELSE x

(***************************************************************************)
(* Telemetry.  An info mapping is a record of the RAM fields; a mapping    *)
(* that lacks a field is a record without it.                              *)
(***************************************************************************)
BaseInfo ==
    [health |-> 176, x_position |-> 205, y_position |-> 192,
     enemy_health |-> 176, enemy_x_position |-> 307, enemy_y_position |-> 192,
     status |-> 512, enemy_status |-> 512, enemy_character |-> 3,
     round_timer |-> 99]

HasField(step, f) == f \in DOMAIN step

(***************************************************************************)
(* DeepQAgent.prepareNetworkInputs.  The result is [err, vec]: err names   *)
(* the exception the call raises ("none" when it returns) and vec is the   *)
(* feature vector returned.                                                *)
(***************************************************************************)
Zeros(k) == [i \in 1 .. k |-> 0]

\* [0] * len(stateIndices) with position stateIndices[code] (0-based) set to 1
OneHotAt(k, idx) == [i \in 1 .. k |-> IF i = idx + 1 THEN 1 ELSE 0]

\* Lines 228-229 / 243-244: the dictionary lookup is skipped for doneKeys only.
StatusRaises(code) == code \notin doneKeys /\ code \notin DOMAIN stateIndices

\* Mutant: the index computed from the code (512, 514, ... step 2) instead of
\* looked up in stateIndices.
OneHotStatusByArithmetic(code) ==
    IF code \in doneKeys
    THEN Zeros(Cardinality(DOMAIN stateIndices))
    ELSE OneHotAt(Cardinality(DOMAIN stateIndices), (code - 512) \div 2)

OneHotStatus(code) ==
    IF code \in doneKeys
    THEN Zeros(Cardinality(DOMAIN stateIndices))
    ELSE OneHotAt(Cardinality(DOMAIN stateIndices), stateIndices[code])

\* Lines 233-234: a Python list index, negative indices counting from the end.
CharRaises(c) == c < -NUM_CHARACTERS \/ c >= NUM_CHARACTERS

OneHotChar(c) ==
    OneHotAt(NUM_CHARACTERS, IF c < 0 THEN c + NUM_CHARACTERS ELSE c)

FieldOrder ==
    << "enemy_health", "enemy_x_position", "enemy_y_position", "enemy_status",
       "enemy_character", "health", "x_position", "y_position", "status" >>

\* The exception of the first failing statement, in statement order.
RECURSIVE EncodeError(_, _)
EncodeError(step, i) ==
    IF i > Len(FieldOrder) THEN "none"
    ELSE LET f == FieldOrder[i]
         IN  IF ~HasField(step, f) THEN "KeyError"
             ELSE IF f \in {"enemy_status", "status"} /\ StatusRaises(step[f])
                  THEN "KeyError"
             ELSE IF f = "enemy_character" /\ CharRaises(step[f])
                  THEN "IndexError"
             ELSE EncodeError(step, i + 1)

FeatureList(step) ==
    << step.enemy_health, step.enemy_x_position, step.enemy_y_position >>
    \o OneHotStatus(step.enemy_status)
    \o OneHotChar(step.enemy_character)
    \o << step.health, step.x_position, step.y_position >>
    \o OneHotStatus(step.status)

prepareNetworkInputs(step) ==
    LET e == EncodeError(step, 1)
    IN  IF e # "none" THEN [err |-> e, vec |-> << >>]
        ELSE IF Len(FeatureList(step)) # stateSize
             THEN [err |-> "ValueError", vec |-> << >>]
        ELSE [err |-> "none", vec |-> FeatureList(step)]

\* Offsets (1-based) of the two status segments inside the feature vector.
EnemyStatusSegment(vec) == SubSeq(vec, 4, 12)
PlayerStatusSegment(vec) == SubSeq(vec, 24, 32)

(***************************************************************************)
(* The approximator (a Keras model, external to the repository) is an      *)
(* opaque value: a table from the feature vectors in play to one value per *)
(* action.  predict reads the table; fit may move it to any table.         *)
(***************************************************************************)
InfoStand == BaseInfo
InfoHit == [BaseInfo EXCEPT !.enemy_health = 150, !.enemy_status = 526]
InfoLockout == [BaseInfo EXCEPT !.round_timer = LOCKOUT_TIMER]
\* 1034 is in neither stateIndices nor doneKeys
InfoUnlisted == [BaseInfo EXCEPT !.status = 1034]

PlayInfos == {InfoStand, InfoHit}
KnownVecs == {prepareNetworkInputs(i).vec : i \in PlayInfos}

\* Two value vectors: one with a single maximum at the last action, one with
\* every action tied at a higher value.
Rising == [a \in Actions |-> 100 * a]
Flat == [a \in Actions |-> 100 * actionSize]
VecStand == prepareNetworkInputs(InfoStand).vec
NetA == [x \in KnownVecs |-> IF x = VecStand THEN Rising ELSE Flat]
NetB == [x \in KnownVecs |-> IF x = VecStand THEN Flat ELSE Rising]
Nets == {NetA, NetB}

\* model.predict(x)[0]
Predict(net, x) == net[x]
\* what model.fit(x, y) may leave behind
FitResults(net, x, y) == Nets

\* numpy.amax / numpy.argmax (the first index holding the maximum)
Amax(q) == CHOOSE v \in {q[a] : a \in DOMAIN q} : \A a \in DOMAIN q : q[a] <= v
Argmax(q) == CHOOSE a \in DOMAIN q : q[a] = Amax(q) /\ \A b \in DOMAIN q : b < a => q[b] < q[a]

(***************************************************************************)
(* State of one agent.                                                     *)
(***************************************************************************)
VARIABLES
    memory,      \* self.memory: the deque of recorded steps, oldest first
    lastAction,  \* self.lastAction: << >> while the attribute is not set, else << a >>
    epsilon,     \* self.epsilon
    model,       \* self.model (the trainNetwork parameter is the same object)
    losses,      \* len(self.lossHistory.losses)
    checkpoint,  \* the weights file: << >> when absent, else << net >>
    logLines,    \* number of lines of the log file
    pc,          \* "ready", or "training" inside trainNetwork's loop
    raised,      \* the exception that left the last call uncaught, or "none"
    lastSave,    \* what the file system did to the last saveModel, "none" before
    minibatch,   \* trainNetwork: the part of the shuffled data not yet visited
    fitCalls,    \* history: the data items given to model.fit in the last pass, in order
    lastFit,     \* history: the latest model.fit call of the running pass (<< >> outside
                 \* one), its arguments and the net it met
    ret,         \* what the last getMove did and returned
    appended,    \* history: every step appended since the deque was created
    trained,     \* history: the data handed to the current training pass
    epsilon0,    \* history: epsilon at construction
    passes,      \* history: training passes completed
    encInfo,     \* encoder harness: the mapping given to prepareNetworkInputs
    encResult    \* encoder harness: << >> before the call, else << result >>

vars == << memory, lastAction, epsilon, model, losses, checkpoint, logLines, pc,
           raised, lastSave, minibatch, fitCalls, lastFit, ret, appended, trained, epsilon0,
           passes, encInfo, encResult >>

agentVars == << memory, lastAction, epsilon, model, losses, checkpoint, logLines,
                pc, raised, lastSave, minibatch, fitCalls, lastFit, ret, appended, trained,
                epsilon0, passes >>

NoRet == [branch |-> "none", move |-> NO_MOVE, drew |-> FALSE, sampled |-> FALSE,
          predicted |-> FALSE, info |-> BaseInfo, draw |-> [n |-> 0, d |-> 1],
          epsilon |-> [n |-> 0, d |-> 1], net |-> << >>]

\* Agent.__init__ / DeepQAgent.__init__: a fresh agent with exploration rate e
\* (EPSILON_MIN when load is set) and network m (initialised, or loaded weights).
Construct(load, e, m) ==
    /\ memory = << >>
    /\ lastAction = << >>
    /\ epsilon = (IF load THEN EPSILON_MIN ELSE e)
    /\ model = m
    /\ losses = 0
    /\ checkpoint = (IF load THEN << m >> ELSE << >>)
    /\ logLines = 0
    /\ pc = "ready"
    /\ raised = "none"
    /\ lastSave = "none"
    /\ minibatch = << >>
    /\ fitCalls = << >>
    /\ lastFit = << >>
    /\ ret = NoRet
    /\ appended = << >>
    /\ trained = << >>
    /\ epsilon0 = epsilon
    /\ passes = 0

Callable == pc = "ready" /\ raised = "none"

(***************************************************************************)
(* Agent: the memory.                                                      *)
(***************************************************************************)
\* Mutant: a full memory refuses the new step instead of evicting the oldest.
DequeAppendDropsNewest(q, x) ==
    IF Len(q) >= MAX_DATA_LENGTH THEN q ELSE Append(q, x)

\* collections.deque(maxlen = MAX_DATA_LENGTH).append
DequeAppend(q, x) ==
    IF Len(q) >= MAX_DATA_LENGTH THEN Append(Tail(q), x) ELSE Append(q, x)

\* Mutant: preparing for the next fight also puts the exploration rate back to
\* its default.
prepareForNextFightResetsEpsilon ==
    /\ Callable
    /\ memory' = << >>
    /\ appended' = << >>
    /\ epsilon' = DEFAULT_EPSILON
    /\ UNCHANGED << lastAction, model, losses, checkpoint, logLines, pc,
                    raised, lastSave, minibatch, fitCalls, lastFit, ret, trained, epsilon0, passes,
                    encInfo, encResult >>

\* Agent.prepareForNextFight
prepareForNextFight ==
    /\ Callable
    /\ memory' = << >>
    /\ appended' = << >>
    /\ UNCHANGED << lastAction, epsilon, model, losses, checkpoint, logLines, pc,
                    raised, lastSave, minibatch, fitCalls, lastFit, ret, trained, epsilon0, passes,
                    encInfo, encResult >>

\* Agent.getMove (the base agent's random move), which records lastAction
AgentGetMove(sample) ==
    /\ Callable
    /\ lastAction' = << sample >>
    /\ ret' = [NoRet EXCEPT !.branch = "random", !.move = sample, !.sampled = TRUE]
    /\ UNCHANGED << memory, epsilon, model, losses, checkpoint, logLines, pc,
                    raised, lastSave, minibatch, fitCalls, lastFit, appended, trained, epsilon0,
                    passes, encInfo, encResult >>

\* Agent.recordStep
recordStep(observation, state, reward, nextObservation, nextState, done) ==
    /\ Callable
    /\ IF lastAction = << >>
       THEN /\ raised' = "AttributeError"
            /\ UNCHANGED << memory, appended >>
       ELSE LET step == << observation, state, lastAction[1], reward,
                           nextObservation, nextState, done >>
            IN  /\ memory' = DequeAppend(memory, step)
                /\ appended' = Append(appended, step)
                /\ UNCHANGED raised
    \* the histories of the last review are dropped once a new fight is recorded
    /\ fitCalls' = << >> /\ trained' = << >>
    /\ UNCHANGED << lastFit, lastAction, epsilon, model, losses, checkpoint, logLines, pc,
                    lastSave, minibatch, ret, epsilon0, passes, encInfo, encResult >>

(***************************************************************************)
(* DeepQAgent: move selection.                                             *)
(***************************************************************************)
\* Mutant: the lockout test is lost, every state is actionable.
AlwaysActionable(info) == TRUE

\* DeepQAgent.isActionableState, once info['round_timer'] has been read
isActionableState(info) == info.round_timer # LOCKOUT_TIMER

\* Mutant: the comparison turned round, self.epsilon <= numpy.random.rand().
ExploresReversed(draw, eps) == LeQ(eps, draw)

\* numpy.random.rand() <= self.epsilon
Explores(draw, eps) == LeQ(draw, eps)

\* DeepQAgent.getMove(obs, info); draw is what numpy.random.rand() would return
\* and sample what the action space's sample() would.
getMove(info, draw, sample) ==
    /\ Callable
    /\ LET here == [NoRet EXCEPT !.info = info, !.epsilon = epsilon, !.net = model]
           enc == prepareNetworkInputs(info)
       IN  IF ~HasField(info, "round_timer")
           THEN /\ ret' = [here EXCEPT !.branch = "raised"]
                /\ raised' = "KeyError"
           ELSE IF ~isActionableState(info)
           THEN /\ ret' = [here EXCEPT !.branch = "noop", !.move = NO_MOVE]
                /\ UNCHANGED raised
           ELSE IF Explores(draw, epsilon)
           THEN /\ ret' = [here EXCEPT !.branch = "explore", !.move = sample,
                                       !.drew = TRUE, !.draw = draw,
                                       !.sampled = TRUE]
                /\ UNCHANGED raised
           ELSE IF enc.err # "none"
           THEN /\ ret' = [here EXCEPT !.branch = "raised", !.drew = TRUE,
                                       !.draw = draw]
                /\ raised' = enc.err
           ELSE /\ ret' = [here EXCEPT !.branch = "exploit",
                                       !.move = Argmax(Predict(model, enc.vec)),
                                       !.drew = TRUE, !.draw = draw,
                                       !.predicted = TRUE]
                /\ UNCHANGED raised
    /\ UNCHANGED << memory, lastAction, epsilon, model, losses, checkpoint,
                    logLines, pc, lastSave, minibatch, fitCalls, lastFit, appended, trained,
                    epsilon0, passes, encInfo, encResult >>

(***************************************************************************)
(* DeepQAgent: the training pass, inside Agent.reviewFight.                *)
(***************************************************************************)
\* One element of the list prepareMemoryForTraining builds
DataItem(step) ==
    << prepareNetworkInputs(step[STATE_INDEX + 1]).vec,
       step[ACTION_INDEX + 1],
       step[REWARD_INDEX + 1],
       step[DONE_INDEX + 1],
       prepareNetworkInputs(step[NEXT_STATE_INDEX + 1]).vec >>

\* The exception prepareMemoryForTraining raises on mem, "none" if it returns
RECURSIVE PrepareError(_, _)
PrepareError(mem, i) ==
    IF i > Len(mem) THEN "none"
    ELSE LET e1 == prepareNetworkInputs(mem[i][STATE_INDEX + 1]).err
             e2 == prepareNetworkInputs(mem[i][NEXT_STATE_INDEX + 1]).err
         IN  IF e1 # "none" THEN e1
             ELSE IF e2 # "none" THEN e2
             ELSE PrepareError(mem, i + 1)

prepareMemoryForTraining(mem) == [i \in 1 .. Len(mem) |-> DataItem(mem[i])]

\* Mutant: len(data) draws with replacement (random.choices), so a step may
\* be visited twice and another not at all.
DrawsWithReplacement(data) ==
    {[i \in 1 .. Len(data) |-> data[f[i]]] : f \in [1 .. Len(data) -> 1 .. Len(data)]}

\* random.sample(data, len(data)): the orders data may be visited in
Shuffles(data) ==
    {[i \in 1 .. Len(data) |-> data[p[i]]] : p \in Permutations(1 .. Len(data))}

\* Mutant: the bootstrap term is added on terminal transitions too.
TdTargetIgnoringDone(net, reward, done, next_state) ==
    reward + (GAMMA_PERCENT * Amax(Predict(net, next_state))) \div 100

\* trainNetwork lines 268-271: the value written at the taken action
TdTarget(net, reward, done, next_state) ==
    IF done THEN reward
    ELSE reward + (GAMMA_PERCENT * Amax(Predict(net, next_state))) \div 100

\* Mutant: the vector given to fit is built from zeros, so the actions not
\* taken lose their predicted values.
FitVectorFromZeros(modelOutput, action, target) ==
    [a \in DOMAIN modelOutput |-> IF a = action THEN target ELSE 0]

\* trainNetwork lines 267, 271: modelOutput[action] = reward on the array
\* model.predict(state)[0] returned
FitVector(modelOutput, action, target) == [modelOutput EXCEPT ![action] = target]

\* trainNetwork line 275
Decay(eps) ==
    IF GtQ(eps, EPSILON_MIN) THEN MulQ(eps, DEFAULT_EPSILON_DECAY) ELSE eps

\* reviewFight up to the first iteration of trainNetwork's loop
reviewFight ==
    /\ Callable
    /\ LET e == PrepareError(memory, 1)
       IN  IF e # "none"
           THEN /\ raised' = e
                /\ UNCHANGED << pc, minibatch, fitCalls, losses, trained >>
           ELSE /\ minibatch' \in Shuffles(prepareMemoryForTraining(memory))
                /\ trained' = prepareMemoryForTraining(memory)
                /\ losses' = 0
                /\ fitCalls' = << >>
                /\ pc' = "training"
                /\ UNCHANGED raised
    /\ UNCHANGED << memory, lastAction, epsilon, model, checkpoint, logLines, ret,
                    lastSave, lastFit, appended, epsilon0, passes, encInfo, encResult >>

\* One iteration of trainNetwork's loop (lines 266-273)
trainStep ==
    /\ pc = "training"
    /\ minibatch # << >>
    /\ LET item == Head(minibatch)
           state == item[1]
           action == item[2]
           reward == item[3]
           done == item[4]
           next_state == item[5]
           modelOutput == Predict(model, state)
           target == TdTarget(model, reward, done, next_state)
           y == FitVector(modelOutput, action, target)
       IN  /\ model' \in FitResults(model, state, y)
           /\ lastFit' = << [state |-> state, target |-> y, item |-> item,
                             before |-> model] >>
           /\ fitCalls' = Append(fitCalls, item)
    /\ losses' = losses + 1
    /\ minibatch' = Tail(minibatch)
    /\ UNCHANGED << memory, lastAction, epsilon, checkpoint, logLines, pc, raised,
                    lastSave, ret, appended, trained, epsilon0, passes, encInfo, encResult >>

\* The end of trainNetwork (line 275) and the rest of reviewFight: saveModel,
\* then prepareForNextFight.  disk is what the file system does to saveModel:
\* "ok", "weights" (save_weights fails) or "log" (the log file cannot be opened
\* or written).
reviewFinish(disk) ==
    /\ pc = "training"
    /\ minibatch = << >>
    /\ epsilon' = Decay(epsilon)
    /\ passes' = passes + 1
    /\ pc' = "ready"
    /\ lastSave' = disk
    /\ IF disk = "weights"
       THEN /\ raised' = "OSError"
            /\ UNCHANGED << checkpoint, logLines, memory, appended >>
       ELSE IF disk = "log"
       THEN /\ raised' = "OSError"
            /\ checkpoint' = << model >>
            /\ UNCHANGED << logLines, memory, appended >>
       ELSE IF losses = 0
       THEN /\ raised' = "ZeroDivisionError"
            /\ checkpoint' = << model >>
            /\ UNCHANGED << logLines, memory, appended >>
       ELSE /\ checkpoint' = << model >>
            /\ logLines' = logLines + 1
            /\ memory' = << >>
            /\ appended' = << >>
            /\ UNCHANGED raised
    /\ lastFit' = << >>
    /\ UNCHANGED << lastAction, model, losses, minibatch, fitCalls, ret, trained,
                    epsilon0, encInfo, encResult >>

(***************************************************************************)
(* Encoder harness: prepareNetworkInputs applied to the mapping encInfo.    *)
(***************************************************************************)
encode ==
    /\ encResult = << >>
    /\ encResult' = << prepareNetworkInputs(encInfo) >>
    /\ UNCHANGED << encInfo, agentVars >>

(***************************************************************************)
(* Inputs.                                                                 *)
(***************************************************************************)
Frame == "frame"
Rewards == {-100, 100}
InfoNoTimer ==
    [health |-> 176, x_position |-> 205, y_position |-> 192,
     enemy_health |-> 176, enemy_x_position |-> 307, enemy_y_position |-> 192,
     status |-> 512, enemy_status |-> 512, enemy_character |-> 3]
MoveInfos == {InfoStand, InfoHit, InfoLockout, InfoUnlisted, InfoNoTimer}
DiskOutcomes == {"ok", "weights", "log"}
\* values numpy.random.rand() can return: 0.0 and values inside [0, 1)
Draws == {[n |-> 0, d |-> 1], [n |-> 1, d |-> 10], [n |-> 1, d |-> 2],
          [n |-> 999, d |-> 1000]}
PlayDraws == {[n |-> 0, d |-> 1], [n |-> 999, d |-> 1000]}
EpsilonInits == {[n |-> 0, d |-> 1], EPSILON_MIN, [n |-> 1001, d |-> 10000],
                 [n |-> 1, d |-> 2], DEFAULT_EPSILON}

UnlistedCodes == {510, 534, 1034}
StatusCodes == DOMAIN stateIndices \cup doneKeys \cup UnlistedCodes
EncoderInfos ==
    {[BaseInfo EXCEPT !.status = s, !.enemy_status = e, !.enemy_character = c] :
        s \in StatusCodes, e \in StatusCodes, c \in {0, 7, -1, 8}}
    \cup {[x_position |-> 205, status |-> 512]}

NoHarness == encInfo = BaseInfo /\ encResult = << >>

(***************************************************************************)
(* Specifications.  Each runs the same operations; they differ in the      *)
(* agent constructed and in the inputs the operations are given.           *)
(***************************************************************************)
\* Training runs: one Q-learning agent through fights and reviews.  The first
\* step of a fight takes either reward, the later ones the positive reward.
FightRewards == IF memory = << >> THEN Rewards ELSE {100}

Init ==
    /\ \E m \in Nets : Construct(FALSE, DEFAULT_EPSILON, m)
    /\ NoHarness

Next ==
    \/ \E sample \in Actions : AgentGetMove(sample)
    \/ /\ Len(memory) < MaxFight
       /\ \E state \in {InfoStand, InfoUnlisted}, reward \in FightRewards,
             done \in BOOLEAN :
             recordStep(Frame, state, reward, Frame, InfoHit, done)
    \/ passes < MaxReviews /\ reviewFight
    \/ trainStep
    \/ \E disk \in DiskOutcomes : reviewFinish(disk)
    \/ prepareForNextFight

Spec == Init /\ [][Next]_vars

\* Memory runs: steps recorded past the capacity of the deque.
InitMemory ==
    /\ Construct(FALSE, DEFAULT_EPSILON, NetA)
    /\ NoHarness

NextMemory ==
    \/ \E sample \in Actions : AgentGetMove(sample)
    \/ /\ Len(appended) < MaxAppends
       /\ \E state \in PlayInfos, done \in BOOLEAN :
             recordStep(Frame, state, 100, Frame, InfoStand, done)
    \/ prepareForNextFight

SpecMemory == InitMemory /\ [][NextMemory]_vars

\* Epsilon runs: agents built with any starting epsilon, repeated passes over
\* one-step fights.
InitEpsilon ==
    /\ \E load \in BOOLEAN, e \in EpsilonInits, m \in Nets : Construct(load, e, m)
    /\ NoHarness

NextEpsilon ==
    \/ \E sample \in Actions : AgentGetMove(sample)
    \/ /\ memory = << >>
       /\ recordStep(Frame, InfoStand, 100, Frame, InfoHit, TRUE)
    \/ passes < MaxPasses /\ reviewFight
    \/ trainStep
    \/ \E disk \in DiskOutcomes : reviewFinish(disk)

SpecEpsilon == InitEpsilon /\ [][NextEpsilon]_vars

\* Move runs: getMove on any telemetry, draw and sample.
InitMove ==
    /\ \E e \in EpsilonInits, m \in Nets : Construct(FALSE, e, m)
    /\ NoHarness

NextMove ==
    \E info \in MoveInfos, draw \in Draws, sample \in Actions :
        getMove(info, draw, sample)

SpecMove == InitMove /\ [][NextMove]_vars

\* Recording runs: decision frames of an agent, each a getMove (the class's
\* own, or the base class's) followed by recordStep.
InitRecord ==
    /\ \E e \in EpsilonInits : Construct(FALSE, e, NetA)
    /\ NoHarness

NextRecord ==
    \/ \E info \in {InfoStand, InfoLockout}, draw \in Draws, sample \in Actions :
          getMove(info, draw, sample)
    \/ \E sample \in Actions : AgentGetMove(sample)
    \/ /\ Len(appended) < MaxFight
       /\ recordStep(Frame, InfoStand, 100, Frame, InfoHit, FALSE)

SpecRecord == InitRecord /\ [][NextRecord]_vars

\* Play runs: an agent built with any starting epsilon choosing moves,
\* recording one-step fights, reviewing them and clearing its memory.
InitPlay ==
    /\ \E load \in BOOLEAN, e \in EpsilonInits : Construct(load, e, NetA)
    /\ NoHarness

NextPlay ==
    \/ \E info \in {InfoStand, InfoLockout}, draw \in PlayDraws, sample \in {0} :
          getMove(info, draw, sample)
    \/ \E sample \in {0} : AgentGetMove(sample)
    \/ /\ memory = << >>
       /\ recordStep(Frame, InfoStand, 100, Frame, InfoHit, TRUE)
    \/ passes < MaxPasses /\ reviewFight
    \/ trainStep
    \/ \E disk \in DiskOutcomes : reviewFinish(disk)
    \/ prepareForNextFight

SpecPlay == InitPlay /\ [][NextPlay]_vars

\* Encoder runs: prepareNetworkInputs on each mapping of EncoderInfos.
InitEncoder ==
    /\ Construct(FALSE, DEFAULT_EPSILON, NetA)
    /\ encInfo \in EncoderInfos
    /\ encResult = << >>

NextEncoder == encode

SpecEncoder == InitEncoder /\ [][NextEncoder]_vars

(***************************************************************************)
(* Claims.                                                                 *)
(***************************************************************************)
\* The last n elements of s, in order (all of s when it is shorter)
LastN(s, n) == IF Len(s) <= n THEN s ELSE SubSeq(s, Len(s) - n + 1, Len(s))

Elements(s) == {s[i] : i \in DOMAIN s}

\* s and t hold the same elements the same number of times
IsPermutationOf(s, t) ==
    /\ Len(s) = Len(t)
    /\ \E p \in Permutations(1 .. Len(s)) : \A i \in 1 .. Len(s) : s[i] = t[p[i]]

\* C1: whatever steps are recorded, the memory never holds more than
\* MAX_DATA_LENGTH steps and holds exactly the most recently recorded ones, in
\* the order they were recorded (the oldest is evicted first).
C1_MemoryKeepsNewest ==
    /\ Len(memory) <= MAX_DATA_LENGTH
    /\ memory = LastN(appended, MAX_DATA_LENGTH)

\* C1 witness: one step more than the capacity has been recorded and exactly
\* the first recorded step is gone.
C1_Witness ==
    /\ Len(appended) = MAX_DATA_LENGTH + 1
    /\ memory = Tail(appended)
    /\ Head(appended) \notin Elements(memory)

\* max(EPSILON_MIN, e * DEFAULT_EPSILON_DECAY^k): once a power is at or below
\* the floor so are the later ones, so the multiplication stops there.
RECURSIVE FlooredPower(_, _)
FlooredPower(e, k) ==
    IF k = 0 \/ ~GtQ(e, EPSILON_MIN) THEN MaxQ(EPSILON_MIN, e)
    ELSE FlooredPower(MulQ(e, DEFAULT_EPSILON_DECAY), k - 1)

\* C2: after N training passes from a starting epsilon e0 >= EPSILON_MIN,
\* epsilon equals max(EPSILON_MIN, e0 * decay^N), so it is never below the
\* floor.
C2_EpsilonClosedForm ==
    (pc = "ready" /\ raised = "none" /\ LeQ(EPSILON_MIN, epsilon0))
        => /\ EqQ(epsilon, FlooredPower(epsilon0, passes))
           /\ LeQ(EPSILON_MIN, epsilon)

\* C3: in every fit call of a pass the value written for the taken action is
\* the reward itself on a terminal transition, and otherwise exceeds the reward
\* by exactly 0.98 times the largest value predicted for the next state by the
\* approximator as it stood when the call was prepared.
C3_TargetIsBellman ==
    lastFit # << >> =>
        LET call == lastFit[1]
            action == call.item[2]
            reward == call.item[3]
            done == call.item[4]
            next_state == call.item[5]
        IN  IF done
            THEN call.target[action] = reward
            ELSE 100 * (call.target[action] - reward)
                    = GAMMA_PERCENT * Amax(Predict(call.before, next_state))

\* C3 witness: the second fit call of a pass, on a non-terminal transition
\* with reward 1.0, met a next-state maximum of 2.0 and wrote 2.96.
C3_Witness ==
    /\ lastFit # << >>
    /\ Len(fitCalls) = 2
    /\ ~lastFit[1].item[4]
    /\ lastFit[1].item[3] = 100
    /\ Amax(Predict(lastFit[1].before, lastFit[1].item[5])) = 200
    /\ lastFit[1].target[lastFit[1].item[2]] = 296

C5_GreedyAtZeroEpsilon ==
    (/\ ret.branch # "none"
     /\ ret.epsilon.n = 0
     /\ HasField(ret.info, "round_timer")
     /\ isActionableState(ret.info)
     /\ prepareNetworkInputs(ret.info).err = "none")
        => /\ ret.branch = "exploit"
           /\ ~ret.sampled
           /\ ret.move = Argmax(Predict(ret.net, prepareNetworkInputs(ret.info).vec))

\* C6: with epsilon = 1 no getMove call asks the approximator for a prediction,
\* whatever the draw: every call in an actionable state explores.
C6_NoPredictAtFullEpsilon ==
    (ret.branch # "none" /\ EqQ(ret.epsilon, [n |-> 1, d |-> 1]))
        => /\ ~ret.predicted
           /\ (HasField(ret.info, "round_timer") /\ isActionableState(ret.info))
                 => ret.branch = "explore" /\ ret.sampled

\* C6 witness: a call with epsilon = 1 and the largest draw explored.
C6_Witness ==
    /\ ret.branch = "explore"
    /\ EqQ(ret.epsilon, [n |-> 1, d |-> 1])
    /\ ret.draw = [n |-> 999, d |-> 1000]
    /\ ~ret.predicted

\* Exactly one 1, at 0-based position idx, and 0 elsewhere
IsOneHotAt(seg, idx) ==
    /\ idx + 1 \in DOMAIN seg
    /\ \A i \in DOMAIN seg : seg[i] = (IF i = idx + 1 THEN 1 ELSE 0)

AllZero(seg) == \A i \in DOMAIN seg : seg[i] = 0

KnownCodes == DOMAIN stateIndices

Encodable(info) ==
    /\ \A i \in DOMAIN FieldOrder : HasField(info, FieldOrder[i])
    /\ ~CharRaises(info.enemy_character)

\* C7: for a mapping whose status or enemy_status is outside the 9 codes of
\* stateIndices, in doneKeys or not, prepareNetworkInputs raises nothing and
\* the one-hot segment of that status is all zeros.
C7_UnknownStatusIsAllZero ==
    (/\ encResult # << >>
     /\ Encodable(encInfo)
     /\ (encInfo.status \notin KnownCodes \/ encInfo.enemy_status \notin KnownCodes))
        => /\ encResult[1].err = "none"
           /\ encInfo.status \notin KnownCodes
                 => AllZero(PlayerStatusSegment(encResult[1].vec))
           /\ encInfo.enemy_status \notin KnownCodes
                 => AllZero(EnemyStatusSegment(encResult[1].vec))

C9_SaveFailureIsRecovered ==
    (lastSave \in {"weights", "log"} /\ trained # << >>)
        => /\ raised = "none"
           /\ pc = "ready"
           /\ memory = << >>

\* C10: when the telemetry shows the lockout timer, getMove returns NO_MOVE
\* whatever epsilon is, without drawing, sampling or predicting.
C10_LockoutReturnsNoMove ==
    (/\ ret.branch # "none"
     /\ HasField(ret.info, "round_timer")
     /\ ret.info.round_timer = LOCKOUT_TIMER)
        => /\ ret.branch = "noop"
           /\ ret.move = NO_MOVE
           /\ ~ret.drew /\ ~ret.sampled /\ ~ret.predicted

\* C10 witness: a call on locked-out telemetry with epsilon = 1 returned
\* NO_MOVE.
C10_Witness ==
    /\ ret.branch = "noop"
    /\ ret.info.round_timer = LOCKOUT_TIMER
    /\ EqQ(ret.epsilon, [n |-> 1, d |-> 1])
    /\ ret.move = NO_MOVE

\* C11: in every fit call of a pass, the vector given to fit has the same
\* actions as the prediction for the transition's state made just before the
\* call, holds the computed target at the taken action, and equals that
\* prediction at every other action.
C11_FitChangesOnlyTakenAction ==
    lastFit # << >> =>
        LET call == lastFit[1]
            predicted == Predict(call.before, call.item[1])
            action == call.item[2]
        IN  /\ call.state = call.item[1]
            /\ DOMAIN call.target = DOMAIN predicted
            /\ action \in DOMAIN predicted
            /\ call.target[action]
                   = TdTarget(call.before, call.item[3], call.item[4], call.item[5])
            /\ \A a \in DOMAIN predicted :
                   a # action => call.target[a] = predicted[a]

\* C11 witness: a fit call whose target moved the taken action's value away
\* from its prediction while another action kept a non-zero predicted value.
C11_Witness ==
    /\ lastFit # << >>
    /\ LET call == lastFit[1]
           predicted == Predict(call.before, call.item[1])
           action == call.item[2]
       IN  /\ call.target[action] # predicted[action]
           /\ \E a \in DOMAIN predicted :
                  a # action /\ predicted[a] # 0 /\ call.target[a] = predicted[a]

\* A getMove of either class has returned a move
MoveChosen == ret.branch \in {"random", "noop", "explore", "exploit"}

\* C12: a recordStep call that follows a getMove appends exactly one step of
\* seven fields to the memory, and the action field of that step is the move
\* that getMove returned, whether it was DeepQAgent.getMove or Agent.getMove.
C12_RecordStepStoresChosenAction ==
    [][(MoveChosen /\ recordStep(Frame, InfoStand, 100, Frame, InfoHit, FALSE))
          => /\ raised' = "none"
             /\ Len(appended') = Len(appended) + 1
             /\ memory' # << >>
             /\ LET step == memory'[Len(memory')]
                IN  /\ Len(step) = DONE_INDEX + 1
                    /\ step = << Frame, InfoStand, ret.move, 100, Frame, InfoHit,
                                 FALSE >>]_vars

\* The step is the end of a training pass (trainNetwork line 275 onwards)
EndsTrainingPass == pc = "training" /\ pc' = "ready"

\* C13: every step that changes epsilon is the end of a training pass, so
\* getMove on each of its branches, recordStep, the preparation of the memory
\* for training, the fit calls and prepareForNextFight leave it as it was; and
\* no step increases epsilon.
C13_EpsilonOnlyDecays ==
    [][/\ (epsilon' # epsilon => EndsTrainingPass)
       /\ LeQ(epsilon', epsilon)]_vars

\* C13 witness: after a pass lowered epsilon below its starting value, a step
\* was recorded and getMove took its greedy branch under the lowered epsilon.
C13_Witness ==
    /\ passes >= 1
    /\ GtQ(epsilon0, epsilon)
    /\ memory # << >>
    /\ ret.branch = "exploit"
    /\ EqQ(ret.epsilon, epsilon)

====
